---- MODULE Spec2Model ----
(***************************************************************************)
(* State-machine model of the deposit-tracking server                     *)
(* (src/unnamed/part_000): the in-memory ledger (chartData, userData),     *)
(* the monthly snapshot history, the audit log, the team roster and the    *)
(* list of connected SSE clients, with one action per request handler.     *)
(*                                                                         *)
(* Conventions.                                                            *)
(*  - JavaScript arrays are sequences; JavaScript indexes are kept         *)
(*    0-based as in the source, so a[i] of the source is a[i + 1] here.    *)
(*  - A plain object is a record; a property the source never sets is a    *)
(*    field the record does not have ("entries" \notin DOMAIN data).       *)
(*  - userData is an object used as a map; Object.keys and for-in visit    *)
(*    its string keys in insertion order, so it is a sequence of           *)
(*    [key, data] pairs in insertion order.                                *)
(*  - A query parameter that is absent (undefined) or empty is the empty   *)
(*    string ("" or <<>>): the handlers modelled here test such parameters *)
(*    only for truthiness.                                                 *)
(*  - A JavaScript number is a record: Num(n), Infinity, NegInfinity, NaN. *)
(*  - The timestamp field of a log entry is a clock reading no handler     *)
(*    reads back; log entries keep admin, action and details.              *)
(*  - An exception thrown inside the request listener is not caught        *)
(*    anywhere: the process ends with the state as it is at the throw      *)
(*    (running = FALSE) and no response is written.                        *)
(***************************************************************************)
EXTENDS Integers, Sequences, FiniteSets, TLC

VARIABLES
    chartData,       \* [labels, values]: the aggregate series
    userData,        \* sequence of [key, data]: the contributor series
    logs,            \* sequence of [admin, action, details]
    monthlyHistory,  \* sequence of [month, chart, users, team]
    currentMonth,    \* "YYYY-MM"
    credentials,     \* sequence of [name, password, isMaster]
    teamData,        \* sequence of [id, name, description]
    clients,         \* sequence of connected SSE responses, oldest first
    running,         \* FALSE once an uncaught exception ended the process
    res,             \* the response written last: [code, body]
    writes,          \* the SSE writes of the request or event handled last, in order
    sockets          \* per SSE connection ever opened: "open", "broken"
                     \* (lost, its 'close' event not handled yet) or "closed"

vars == <<chartData, userData, logs, monthlyHistory, currentMonth,
          credentials, teamData, clients, running, res, writes,
          sockets>>

----------------------------------------------------------------------------
(* Bounds of the model.                                                    *)

\* longest aggregate series explored
MaxDeposits == 2
\* most snapshots kept in the history
MaxHistory == 2
\* most audit entries explored (every successful mutation adds one)
MaxLogs == 4
\* most SSE connections opened
MaxClients == 2

----------------------------------------------------------------------------
(* JavaScript numbers and parseFloat.                                      *)

Num(n) == [k |-> "num", n |-> n]
Infinity == [k |-> "inf", n |-> 1]
NegInfinity == [k |-> "inf", n |-> -1]
NaN == [k |-> "nan", n |-> 0]

isNaN(x) == x.k = "nan"
isFinite(x) == x.k = "num"

DigitChars == <<"0", "1", "2", "3", "4", "5", "6", "7", "8", "9">>
IsDigit(c) == \E i \in 1..10 : DigitChars[i] = c
DigitValue(c) == (CHOOSE i \in 1..10 : DigitChars[i] = c) - 1

RECURSIVE DigitsValue(_)
DigitsValue(s) ==
    IF s = <<>> THEN 0
    ELSE DigitsValue(SubSeq(s, 1, Len(s) - 1)) * 10 + DigitValue(s[Len(s)])

DigitPrefixLen(s) ==
    CHOOSE n \in 0..Len(s) :
        /\ \A i \in 1..n : IsDigit(s[i])
        /\ n = Len(s) \/ ~IsDigit(s[n + 1])

InfinityChars == <<"I", "n", "f", "i", "n", "i", "t", "y">>

StartsWith(s, p) == Len(s) >= Len(p) /\ SubSeq(s, 1, Len(p)) = p

\* parseFloat on a string given as its sequence of characters: an optional
\* sign, then the literal Infinity or the longest prefix of decimal digits;
\* whatever follows is ignored, and NaN is returned when no prefix parses.
\* (Fractions and exponents are outside the inputs explored.)
parseFloat(s) ==
    LET signed == Len(s) > 0 /\ s[1] \in {"-", "+"}
        neg == Len(s) > 0 /\ s[1] = "-"
        body == IF signed THEN Tail(s) ELSE s
        n == DigitPrefixLen(body)
    IN  IF StartsWith(body, InfinityChars)
        THEN (IF neg THEN NegInfinity ELSE Infinity)
        ELSE IF n = 0 THEN NaN
        ELSE Num((IF neg THEN -1 ELSE 1) * DigitsValue(SubSeq(body, 1, n)))

----------------------------------------------------------------------------
(* userData as an insertion-ordered map.                                   *)

Keys(ud) == [i \in 1..Len(ud) |-> ud[i].key]
KeySet(ud) == {ud[i].key : i \in 1..Len(ud)}
Has(ud, k) == k \in KeySet(ud)
IndexOfKey(ud, k) == CHOOSE i \in 1..Len(ud) : ud[i].key = k
Get(ud, k) == ud[IndexOfKey(ud, k)].data

\* Put with the key deleted first, so that an existing key moves to the end
PutLast(ud, k, d) ==
    LET Keep(e) == e.key # k
    IN  Append(SelectSeq(ud, Keep), [key |-> k, data |-> d])

\* userData[k] = d: an existing key keeps its place, a new one goes last
Put(ud, k, d) ==
    IF Has(ud, k)
    THEN [ud EXCEPT ![IndexOfKey(ud, k)] = [key |-> k, data |-> d]]
    ELSE Append(ud, [key |-> k, data |-> d])

\* delete userData[k]
Delete(ud, k) ==
    LET Keep(e) == e.key # k IN SelectSeq(ud, Keep)

HasEntries(d) == "entries" \in DOMAIN d

----------------------------------------------------------------------------
(* Strings that the code takes apart are sequences of characters.          *)

UpperChars == <<"A", "B", "C", "D", "E", "F", "G", "H", "I", "J", "K", "L", "M",
                "N", "O", "P", "Q", "R", "S", "T", "U", "V", "W", "X", "Y", "Z">>
LowerChars == <<"a", "b", "c", "d", "e", "f", "g", "h", "i", "j", "k", "l", "m",
                "n", "o", "p", "q", "r", "s", "t", "u", "v", "w", "x", "y", "z">>

IsUpper(c) == \E i \in 1..26 : UpperChars[i] = c
IsLower(c) == \E i \in 1..26 : LowerChars[i] = c
ToLowerChar(c) ==
    IF IsUpper(c) THEN LowerChars[CHOOSE i \in 1..26 : UpperChars[i] = c] ELSE c

\* String.prototype.toLowerCase
toLowerCase(s) == [i \in 1..Len(s) |-> ToLowerChar(s[i])]

\* A precomposed accented letter is written base+mark ("e+acute"); its
\* canonical decomposition is the base letter followed by the combining
\* mark ("+acute"), a character of the range U+0300..U+036F.
IsPrecomposed(c) == c \in {"a+acute", "e+acute", "A+acute", "E+acute"}
BaseOf(c) ==
    CASE c = "a+acute" -> "a" [] c = "e+acute" -> "e"
      [] c = "A+acute" -> "A" [] c = "E+acute" -> "E"
IsCombining(c) == c = "+acute"
IsSpace(c) == c \in {" ", "\t"}
\* \w of a JavaScript regular expression: [A-Za-z0-9_]
IsWord(c) == IsUpper(c) \/ IsLower(c) \/ IsDigit(c) \/ c = "_"

RECURSIVE normalizeNFD(_)
\* String.prototype.normalize('NFD')
normalizeNFD(s) ==
    IF s = <<>> THEN <<>>
    ELSE (IF IsPrecomposed(Head(s)) THEN <<BaseOf(Head(s)), "+acute">>
          ELSE <<Head(s)>>) \o normalizeNFD(Tail(s))

RECURSIVE ReplaceSpaceRuns(_, _)
\* .replace(/\s+/g, r): every maximal run of whitespace becomes r
ReplaceSpaceRuns(s, r) ==
    IF s = <<>> THEN <<>>
    ELSE IF IsSpace(Head(s))
         THEN IF Len(s) > 1 /\ IsSpace(s[2])
              THEN ReplaceSpaceRuns(Tail(s), r)
              ELSE r \o ReplaceSpaceRuns(Tail(s), r)
         ELSE <<Head(s)>> \o ReplaceSpaceRuns(Tail(s), r)

\* sanitizeName: NFD, combining marks dropped, whitespace runs to "_",
\* every character outside \w dropped, lower case
sanitizeName(name) ==
    LET NotMark(c) == ~IsCombining(c)
        a == SelectSeq(normalizeNFD(name), NotMark)
        b == ReplaceSpaceRuns(a, <<"_">>)
        c == SelectSeq(b, IsWord)
    IN  toLowerCase(c)

\* parseInt(s, 10): an optional sign and the longest prefix of decimal
\* digits; NaN when there is none
parseInt(s) ==
    LET signed == Len(s) > 0 /\ s[1] \in {"-", "+"}
        neg == Len(s) > 0 /\ s[1] = "-"
        body == IF signed THEN Tail(s) ELSE s
        n == DigitPrefixLen(body)
    IN  IF n = 0 THEN NaN
        ELSE Num((IF neg THEN -1 ELSE 1) * DigitsValue(SubSeq(body, 1, n)))

----------------------------------------------------------------------------
(* JSON.                                                                   *)

Null == [k |-> "null", n |-> 0]

\* JSON.stringify writes a number that is not finite as null
JsonNumber(x) == IF isFinite(x) THEN x ELSE Null
JsonNumbers(s) == [i \in 1..Len(s) |-> JsonNumber(s[i])]

JsonEntry(e) ==
    [time |-> e.time, value |-> JsonNumber(e.value), totalIndex |-> e.totalIndex]

JsonSeries(d) ==
    IF HasEntries(d)
    THEN [labels |-> d.labels, values |-> JsonNumbers(d.values),
          entries |-> [i \in 1..Len(d.entries) |-> JsonEntry(d.entries[i])]]
    ELSE [labels |-> d.labels, values |-> JsonNumbers(d.values)]

\* JSON.parse(JSON.stringify(userData))
JsonUsers(ud) ==
    [i \in 1..Len(ud) |-> [key |-> ud[i].key, data |-> JsonSeries(ud[i].data)]]

\* the text sent to the SSE clients, as the value it encodes
Payload(chart, ud, team) ==
    [totalLabels |-> chart.labels,
     totalValues |-> JsonNumbers(chart.values),
     users |-> JsonUsers(ud),
     team |-> team]

----------------------------------------------------------------------------
(* Shared helpers of the handlers.                                         *)

Unknown == <<"u", "n", "k", "n", "o", "w", "n">>

addLogFirst(lg, adminName, action, details) ==
    <<[admin |-> IF adminName = <<>> THEN Unknown ELSE adminName,
       action |-> action, details |-> details]>> \o lg

addLogUnknownActor(lg, adminName, action, details) ==
    Append(lg, [admin |-> Unknown, action |-> action, details |-> details])

\* addLog(adminName, action, details)
addLog(lg, adminName, action, details) ==
    Append(lg, [admin |-> IF adminName = <<>> THEN Unknown ELSE adminName,
                action |-> action, details |-> details])

broadcastReversed(chart, ud, team, cl) ==
    [i \in 1..Len(cl) |->
        [client |-> cl[Len(cl) + 1 - i], data |-> Payload(chart, ud, team)]]

\* a forEach that a failed write would end
broadcastUntilFailure(chart, ud, team, cl) ==
    LET failed == {i \in 1..Len(cl) : sockets[cl[i]] = "broken"}
        last == IF failed = {} THEN Len(cl)
                ELSE CHOOSE i \in failed : \A j \in failed : i <= j
    IN  [i \in 1..last |-> [client |-> cl[i], data |-> Payload(chart, ud, team)]]

broadcastStale(chart, ud, team, cl) ==
    [i \in 1..Len(cl) |->
        [client |-> cl[i], data |-> Payload(chartData, userData, teamData)]]

\* broadcastChartData: one payload, written to every client in list order
broadcastChartData(chart, ud, team, cl) ==
    LET payload == Payload(chart, ud, team)
    IN  [i \in 1..Len(cl) |-> [client |-> cl[i], data |-> payload]]

Response(code, body) == [code |-> code, body |-> body]
NoResponse == Response(0, "")

----------------------------------------------------------------------------
(* Inputs explored.                                                        *)

Ana == <<"A", "n", "a">>
ana == <<"a", "n", "a">>
Bo == <<"B", "o">>
Esther == <<"E", "s", "t", "h", "e", "r">>

\* contributor names of the requests ("" = no user parameter)
UserNames == {Ana, Bo}
\* the last path segment of /add/<value>
ValueStrings == {<<"5">>, InfinityChars, <<"a", "b", "c">>}
\* what the clock formats to when a deposit arrives
ClockLabels == {"t1"}
\* newTime parameters of PUT /entry
NewTimes == {"t2", "t3"}
\* index parameters of PUT /entry (<<>> = no index parameter)
IndexStrings == {<<"0">>, <<"1">>, <<"-", "1">>, <<"x">>}
MoreIndexStrings == {<<"2">>, <<"1", "x">>, <<>>}
\* what the clock gives as the month, and month parameters
StartMonth == "2026-01"
Months == {StartMonth, "2026-02"}
\* admin parameters (<<>> = none)
AdminNames == {<<>>, Esther}
\* :id segments of /users/:id
UserIds == {sanitizeName(n) : n \in UserNames} \cup {<<"z">>}

----------------------------------------------------------------------------
(* /add/:value  (lines 232-284)                                            *)

\* pushTotal without line 252
pushTotalLabelOnly(chart, label, amount) ==
    [labels |-> Append(chart.labels, label), values |-> chart.values]

\* lines 251-252: the deposit appended to the aggregate series
pushTotal(chart, label, amount) ==
    [labels |-> Append(chart.labels, label),
     values |-> Append(chart.values, amount)]

\* lines 260-262: the contributor's series, created empty when absent
initUser(ud, userName) ==
    IF Has(ud, userName) THEN ud
    ELSE Put(ud, userName, [labels |-> <<>>, values |-> <<>>, entries |-> <<>>])

\* pushUser without line 264
pushUserLabelOnly(d, label, amount) ==
    [d EXCEPT !.labels = Append(@, label)]

\* lines 263-264: label and value appended to the contributor's series
pushUser(d, label, amount) ==
    [d EXCEPT !.labels = Append(@, label), !.values = Append(@, amount)]

\* line 266: the entry that points back at the aggregate index
pushEntryOwnIndex(d, label, amount, totalIndex) ==
    [d EXCEPT !.entries =
        Append(@, [time |-> label, value |-> amount,
                   totalIndex |-> Len(d.values) - 1])]

pushEntry(d, label, amount, totalIndex) ==
    [d EXCEPT !.entries =
        Append(@, [time |-> label, value |-> amount, totalIndex |-> totalIndex])]

Add(valueString, userName, adminName, label) ==
    LET amount == parseFloat(valueString)
        chart1 == pushTotal(chartData, label, amount)
        totalIndex == Len(chart1.values) - 1
        ud0 == initUser(userData, userName)
        d1 == pushUser(Get(ud0, userName), label, amount)
        \* userData[userName].entries.push on an object without entries
        throws == userName # <<>> /\ ~HasEntries(d1)
        ud1 == IF userName = <<>> THEN userData
               ELSE IF throws THEN Put(ud0, userName, d1)
               ELSE Put(ud0, userName, pushEntry(d1, label, amount, totalIndex))
    IN  /\ running
        /\ Len(chartData.values) < MaxDeposits
        /\ Len(logs) < MaxLogs
        /\ IF isNaN(amount)
           THEN /\ res' = Response(400, "Valor invalido")
                /\ writes' = <<>>
                /\ UNCHANGED <<chartData, userData, logs, running>>
           ELSE IF throws
           THEN /\ chartData' = chart1
                /\ userData' = ud1
                /\ running' = FALSE
                /\ res' = NoResponse
                /\ writes' = <<>>
                /\ UNCHANGED logs
           ELSE /\ chartData' = chart1
                /\ userData' = ud1
                /\ logs' = addLog(logs, adminName, "deposit",
                                  [user |-> IF userName = <<>>
                                            THEN <<"t", "o", "t", "a", "l">>
                                            ELSE userName,
                                   value |-> amount, time |-> label])
                /\ writes' = broadcastChartData(chart1, ud1, teamData, clients)
                /\ res' = Response(200, "Valor adicionado")
                /\ UNCHANGED running
        /\ UNCHANGED <<monthlyHistory, currentMonth, credentials, teamData,
                       clients, sockets>>

----------------------------------------------------------------------------
(* PUT /entry?user=&index=&newTime=&admin=  (lines 403-442)                *)

\* lines 424-430: entries[idx].time and labels[idx] of the contributor
editUserEntry(d, idx, newTime) ==
    LET d1 == [d EXCEPT !.entries[idx + 1].time = newTime]
    IN  IF idx < Len(d.labels)
        THEN [d1 EXCEPT !.labels[idx + 1] = newTime]
        ELSE d1

\* editTotalLabel writing at the contributor's own index of the entry when
\* told the aggregate index: the position before it
editTotalLabelOffByOne(chart, totalIndex, newTime) ==
    IF totalIndex >= 1 /\ totalIndex <= Len(chart.labels)
    THEN [chart EXCEPT !.labels[totalIndex] = newTime]
    ELSE chart

\* lines 432-435: the aggregate label at the entry's totalIndex
editTotalLabel(chart, totalIndex, newTime) ==
    IF totalIndex >= 0 /\ totalIndex < Len(chart.labels)
    THEN [chart EXCEPT !.labels[totalIndex + 1] = newTime]
    ELSE chart

\* entryFound with idx <= length for idx < length
entryFoundOffByOne(ud, userName, idx) ==
    /\ Has(ud, userName)
    /\ HasEntries(Get(ud, userName))
    /\ idx >= 0
    /\ idx <= Len(Get(ud, userName).entries)

\* lines 417-418: the contributor exists, has an entries array and idx is one
\* of its indexes
entryFound(ud, userName, idx) ==
    /\ Has(ud, userName)
    /\ HasEntries(Get(ud, userName))
    /\ idx >= 0
    /\ idx < Len(Get(ud, userName).entries)

Entry(userName, index, newTime, adminName) ==
    LET parsed == parseInt(index)
        idx == parsed.n
        data == Get(userData, userName)
        \* line 424: data.entries[idx] is undefined outside the array (and
        \* data itself when the key is absent), and line 425 reads .time of it
        throws == \/ ~Has(userData, userName)
                  \/ ~HasEntries(data)
                  \/ idx < 0
                  \/ idx >= Len(data.entries)
        entry == data.entries[idx + 1]
        ud1 == Put(userData, userName, editUserEntry(data, idx, newTime))
        chart1 == editTotalLabel(chartData, entry.totalIndex, newTime)
    IN  /\ running
        /\ Len(logs) < MaxLogs
        /\ IF userName = <<>> \/ index = <<>> \/ newTime = ""
           THEN /\ res' = Response(400, "Parametros ausentes")
                /\ writes' = <<>>
                /\ UNCHANGED <<chartData, userData, logs, running>>
           ELSE IF isNaN(parsed)
           THEN /\ res' = Response(400, "Indice invalido")
                /\ writes' = <<>>
                /\ UNCHANGED <<chartData, userData, logs, running>>
           ELSE IF ~entryFound(userData, userName, idx)
           THEN /\ res' = Response(404, "Entrada nao encontrada")
                /\ writes' = <<>>
                /\ UNCHANGED <<chartData, userData, logs, running>>
           ELSE IF throws
           THEN /\ running' = FALSE
                /\ res' = NoResponse
                /\ writes' = <<>>
                /\ UNCHANGED <<chartData, userData, logs>>
           ELSE /\ userData' = ud1
                /\ chartData' = chart1
                /\ logs' = addLog(logs, adminName, "editEntryTime",
                                  [user |-> userName, index |-> idx,
                                   oldTime |-> entry.time, newTime |-> newTime])
                /\ writes' = broadcastChartData(chart1, ud1, teamData, clients)
                /\ res' = Response(200, "Horario da entrada atualizado")
                /\ UNCHANGED running
        /\ UNCHANGED <<monthlyHistory, currentMonth, credentials, teamData,
                       clients, sockets>>

----------------------------------------------------------------------------
(* DELETE /users/:id and PUT /users/:id?newName=  (lines 444-488)          *)

\* lines 449, 473: Object.keys(userData).find(name => sanitizeName(name) === id),
\* as the position of the first such key, 0 when there is none
findKey(ud, id) ==
    LET hits == {i \in 1..Len(ud) : sanitizeName(ud[i].key) = id}
    IN  IF hits = {} THEN 0
        ELSE CHOOSE i \in hits : \A j \in hits : i <= j

UserDelete(id, adminName) ==
    LET k == findKey(userData, id)
        key == userData[k].key
        ud1 == Delete(userData, key)
    IN  /\ running
        /\ Len(logs) < MaxLogs
        /\ IF k = 0
           THEN /\ res' = Response(404, "Participante nao encontrado")
                /\ writes' = <<>>
                /\ UNCHANGED <<userData, logs>>
           ELSE /\ userData' = ud1
                /\ logs' = addLog(logs, adminName, "userDelete",
                                  [id |-> id, name |-> key])
                /\ writes' = broadcastChartData(chartData, ud1, teamData, clients)
                /\ res' = Response(200, "Participante removido")
        /\ UNCHANGED <<chartData, monthlyHistory, currentMonth, credentials,
                       teamData, clients, sockets, running>>

\* lines 480-482: the series moved under the new key, labels and values only
renameKeyWithEntries(ud, key, newName) ==
    Put(Delete(ud, key), newName, Get(ud, key))

renameKey(ud, key, newName) ==
    LET data == Get(ud, key)
    IN  Put(Delete(ud, key), newName,
            [labels |-> data.labels, values |-> data.values])

UserRename(id, newName, adminName) ==
    LET k == findKey(userData, id)
        key == userData[k].key
        ud1 == renameKey(userData, key, newName)
    IN  /\ running
        /\ Len(logs) < MaxLogs
        /\ IF newName = <<>>
           THEN /\ res' = Response(400, "Novo nome nao especificado")
                /\ writes' = <<>>
                /\ UNCHANGED <<userData, logs>>
           ELSE IF k = 0
           THEN /\ res' = Response(404, "Participante nao encontrado")
                /\ writes' = <<>>
                /\ UNCHANGED <<userData, logs>>
           ELSE /\ userData' = ud1
                /\ logs' = addLog(logs, adminName, "userRename",
                                  [oldName |-> key, newName |-> newName])
                /\ writes' = broadcastChartData(chartData, ud1, teamData, clients)
                /\ res' = Response(200, "Participante renomeado")
        /\ UNCHANGED <<chartData, monthlyHistory, currentMonth, credentials,
                       teamData, clients, sockets, running>>

----------------------------------------------------------------------------
(* GET /events  (lines 490-515)                                            *)

Events ==
    LET client == Len(sockets) + 1
    IN  /\ running
        /\ Len(sockets) < MaxClients
        /\ res' = Response(200, "text/event-stream")
        \* line 506: the initial payload, written to the new response only
        /\ writes' = <<[client |-> client,
                        data |-> Payload(chartData, userData, teamData)]>>
        /\ clients' = Append(clients, client)
        /\ sockets' = Append(sockets, "open")
        /\ UNCHANGED <<chartData, userData, logs, monthlyHistory, currentMonth,
                       credentials, teamData, running>>

\* The connection of an SSE client is lost.  From here on a write to its
\* response fails: write returns false and delivers nothing; it does not
\* throw.  The 'close' event of line 510 is emitted later, so that requests
\* can be handled in between.
SocketBreak(client) ==
    /\ running
    /\ client \in 1..Len(sockets)
    /\ sockets[client] = "open"
    /\ sockets' = [sockets EXCEPT ![client] = "broken"]
    /\ writes' = <<>>
    /\ UNCHANGED <<chartData, userData, logs, monthlyHistory, currentMonth,
                   credentials, teamData, clients, running, res>>

\* clients.splice(idx, 1) for idx = clients.indexOf(res), nothing for -1
removeClient(cl, client) ==
    LET Other(c) == c # client
    IN  SelectSeq(cl, Other)

\* lines 510-513: the 'close' event of an SSE request
SocketClose(client) ==
    /\ running
    /\ client \in 1..Len(sockets)
    /\ sockets[client] # "closed"
    /\ writes' = <<>>
    /\ clients' = removeClient(clients, client)
    /\ sockets' = [sockets EXCEPT ![client] = "closed"]
    /\ UNCHANGED <<chartData, userData, logs, monthlyHistory, currentMonth,
                   credentials, teamData, running, res>>

----------------------------------------------------------------------------
(* POST /reset-month  (lines 517-543)                                      *)

\* lines 521-529: the snapshot pushed to the history
snapshotOf(month, chart, ud, team) ==
    [month |-> month,
     chart |-> [labels |-> chart.labels, values |-> chart.values],
     users |-> JsonUsers(ud),
     team |-> team]

pushSnapshotFirst(history, snapshot) == <<snapshot>> \o history

\* line 520: monthlyHistory.push(...)
pushSnapshot(history, snapshot) == Append(history, snapshot)

\* lines 531-535: the live series after the reset
clearedChart == [labels |-> <<>>, values |-> <<>>]
clearedUsers == <<>>

ResetMonth(adminName, nowMonth) ==
    LET previousMonth == currentMonth
    IN  /\ running
        /\ Len(logs) < MaxLogs
        /\ Len(monthlyHistory) < MaxHistory
        /\ monthlyHistory' = pushSnapshot(monthlyHistory,
               snapshotOf(currentMonth, chartData, userData, teamData))
        /\ chartData' = clearedChart
        /\ userData' = clearedUsers
        /\ currentMonth' = nowMonth
        /\ logs' = addLog(logs, adminName, "resetMonth",
                          [previousMonth |-> previousMonth, newMonth |-> nowMonth])
        /\ writes' = broadcastChartData(clearedChart, clearedUsers, teamData, clients)
        /\ res' = Response(200, "Mes resetado")
        /\ UNCHANGED <<credentials, teamData, clients, sockets, running>>

----------------------------------------------------------------------------
(* POST /restore-month?month=  (lines 545-579)                             *)

findSnapshotLatest(history, month) == Len(history)

\* line 554: monthlyHistory.find(h => h.month === month), as the position of
\* the first such snapshot, 0 when there is none
findSnapshot(history, month) ==
    LET hits == {i \in 1..Len(history) : history[i].month = month}
    IN  IF hits = {} THEN 0
        ELSE CHOOSE i \in hits : \A j \in hits : i <= j

\* lines 561-562
restoredChart(snapshot) ==
    [labels |-> snapshot.chart.labels, values |-> snapshot.chart.values]

\* lines 564-570: labels and values of every contributor of the snapshot
restoredUsers(snapshot) ==
    [i \in 1..Len(snapshot.users) |->
        [key |-> snapshot.users[i].key,
         data |-> [labels |-> snapshot.users[i].data.labels,
                   values |-> snapshot.users[i].data.values]]]

restoredMonthKept(snapshot) == currentMonth

\* currentMonth = snapshot.month (line 573)
restoredMonth(snapshot) == snapshot.month

restoredTeamLive(snapshot) == teamData

\* line 571: teamData = JSON.parse(JSON.stringify(snapshot.team))
restoredTeam(snapshot) == snapshot.team

RestoreMonth(adminName, month) ==
    LET k == findSnapshot(monthlyHistory, month)
        snapshot == monthlyHistory[k]
        chart1 == restoredChart(snapshot)
        ud1 == restoredUsers(snapshot)
        team1 == restoredTeam(snapshot)
    IN  /\ running
        /\ Len(logs) < MaxLogs
        /\ IF month = ""
           THEN /\ res' = Response(400, "Mes nao especificado")
                /\ writes' = <<>>
                /\ UNCHANGED <<chartData, userData, teamData, currentMonth, logs>>
           ELSE IF k = 0
           THEN /\ res' = Response(404, "Mes nao encontrado")
                /\ writes' = <<>>
                /\ UNCHANGED <<chartData, userData, teamData, currentMonth, logs>>
           ELSE /\ chartData' = chart1
                /\ userData' = ud1
                /\ teamData' = team1
                /\ currentMonth' = restoredMonth(snapshot)
                /\ logs' = addLog(logs, adminName, "restoreMonth", [month |-> month])
                /\ writes' = broadcastChartData(chart1, ud1, team1, clients)
                /\ res' = Response(200, "Mes restaurado")
        /\ UNCHANGED <<monthlyHistory, credentials, clients, sockets, running>>

----------------------------------------------------------------------------
(* /team  (lines 286-363)                                                  *)

\* An optional parameter whose absence the code tells from the empty string
\* is <<>> when absent and <<text>> when present.
Absent == <<>>
Given(text) == <<text>>

\* lines 303-307: NFD, combining marks dropped, whitespace dropped, lower case
memberId(name) ==
    LET NotMark(c) == ~IsCombining(c)
        a == SelectSeq(normalizeNFD(name), NotMark)
    IN  toLowerCase(ReplaceSpaceRuns(a, <<>>))

findMemberNever(team, id) == 0

\* findIndex(m => m.id === id) as a position, 0 when there is none
findMember(team, id) ==
    LET hits == {i \in 1..Len(team) : team[i].id = id}
    IN  IF hits = {} THEN 0
        ELSE CHOOSE i \in hits : \A j \in hits : i <= j

MemberResponse(member) == [code |-> 200, body |-> "", member |-> member]

\* POST /team?name=&description=
TeamCreate(name, description, adminName) ==
    LET id == memberId(name)
        member == [id |-> id, name |-> name,
                   description |-> IF description = Absent THEN ""
                                   ELSE description[1]]
        team1 == Append(teamData, member)
    IN  /\ running
        /\ Len(logs) < MaxLogs
        /\ IF name = <<>>
           THEN /\ res' = Response(400, "Nome e obrigatorio")
                /\ writes' = <<>>
                /\ UNCHANGED <<teamData, logs>>
           ELSE IF findMember(teamData, id) # 0
           THEN /\ res' = Response(400, "Membro ja existe")
                /\ writes' = <<>>
                /\ UNCHANGED <<teamData, logs>>
           ELSE /\ teamData' = team1
                /\ logs' = addLog(logs, adminName, "teamCreate", [member |-> member])
                /\ writes' = broadcastChartData(chartData, userData, team1, clients)
                /\ res' = MemberResponse(member)
        /\ UNCHANGED <<chartData, userData, monthlyHistory, currentMonth,
                       credentials, clients, sockets, running>>

\* lines 334-335: the member after the update
updatedMember(member, name, description) ==
    LET m1 == IF name # <<>> THEN [member EXCEPT !.name = name] ELSE member
    IN  IF description # Absent
        THEN [m1 EXCEPT !.description = description[1]]
        ELSE m1

\* PUT /team/:id?name=&description=
TeamUpdate(id, name, description, adminName) ==
    LET idx == findMember(teamData, id)
        team1 == [teamData EXCEPT
                    ![idx] = updatedMember(teamData[idx], name, description)]
    IN  /\ running
        /\ Len(logs) < MaxLogs
        /\ IF idx = 0
           THEN /\ res' = Response(404, "Membro nao encontrado")
                /\ writes' = <<>>
                /\ UNCHANGED <<teamData, logs>>
           ELSE /\ teamData' = team1
                /\ logs' = addLog(logs, adminName, "teamUpdate",
                                  [id |-> id, name |-> name,
                                   description |-> description])
                /\ writes' = broadcastChartData(chartData, userData, team1, clients)
                /\ res' = MemberResponse(team1[idx])
        /\ UNCHANGED <<chartData, userData, monthlyHistory, currentMonth,
                       credentials, clients, sockets, running>>

\* DELETE /team/:id
TeamDelete(id, adminName) ==
    LET idx == findMember(teamData, id)
        removed == teamData[idx]
        team1 == [i \in 1..(Len(teamData) - 1) |->
                     IF i < idx THEN teamData[i] ELSE teamData[i + 1]]
    IN  /\ running
        /\ Len(logs) < MaxLogs
        /\ IF idx = 0
           THEN /\ res' = Response(404, "Membro nao encontrado")
                /\ writes' = <<>>
                /\ UNCHANGED <<teamData, logs>>
           ELSE /\ teamData' = team1
                /\ logs' = addLog(logs, adminName, "teamDelete",
                                  [id |-> removed.id, name |-> removed.name])
                /\ writes' = broadcastChartData(chartData, userData, team1, clients)
                /\ res' = MemberResponse(removed)
        /\ UNCHANGED <<chartData, userData, monthlyHistory, currentMonth,
                       credentials, clients, sockets, running>>

----------------------------------------------------------------------------
(* GET /participants  (lines 365-380)                                      *)

\* a + b of two JavaScript numbers; null counts as 0
jsAdd(a, b) ==
    LET x == IF a.k = "null" THEN Num(0) ELSE a
        y == IF b.k = "null" THEN Num(0) ELSE b
    IN  IF x.k = "nan" \/ y.k = "nan" THEN NaN
        ELSE IF x.k = "inf" /\ y.k = "inf"
             THEN (IF x.n = y.n THEN x ELSE NaN)
        ELSE IF x.k = "inf" THEN x
        ELSE IF y.k = "inf" THEN y
        ELSE Num(x.n + y.n)

RECURSIVE reduceSum(_)
\* line 369: values.reduce((sum, v) => sum + v, 0)
reduceSum(values) ==
    IF values = <<>> THEN Num(0)
    ELSE jsAdd(reduceSum(SubSeq(values, 1, Len(values) - 1)), values[Len(values)])

\* lines 367-376, as the value the JSON text of the response encodes
participantsList(ud) ==
    [i \in 1..Len(ud) |->
        [id |-> sanitizeName(ud[i].key),
         name |-> ud[i].key,
         count |-> Len(ud[i].data.values),
         total |-> JsonNumber(reduceSum(ud[i].data.values))]]

Participants ==
    /\ running
    /\ res' = [code |-> 200, body |-> "", list |-> participantsList(userData)]
    /\ writes' = <<>>
    /\ UNCHANGED <<chartData, userData, logs, monthlyHistory, currentMonth,
                   credentials, teamData, clients, sockets, running>>

----------------------------------------------------------------------------
(* GET /history  (lines 581-587)                                           *)

historyMonthsReversed(history) ==
    [i \in 1..Len(history) |-> history[Len(history) + 1 - i].month]

\* line 583: monthlyHistory.map(h => h.month)
historyMonths(history) == [i \in 1..Len(history) |-> history[i].month]

History ==
    /\ running
    /\ res' = [code |-> 200, body |-> "", months |-> historyMonths(monthlyHistory)]
    /\ writes' = <<>>
    /\ UNCHANGED <<chartData, userData, logs, monthlyHistory, currentMonth,
                   credentials, teamData, clients, sockets, running>>

----------------------------------------------------------------------------
(* GET /logs  (lines 668-673)                                              *)

LogsGet ==
    /\ running
    /\ res' = [code |-> 200, body |-> "", logs |-> logs]
    /\ writes' = <<>>
    /\ UNCHANGED <<chartData, userData, logs, monthlyHistory, currentMonth,
                   credentials, teamData, clients, sockets, running>>

----------------------------------------------------------------------------
(* DELETE /logs  (lines 675-688)                                           *)

clearDeniedMissingOnly(adminName) == adminName = <<>>

\* line 678: !adminName || adminName.toLowerCase() !== 'esther'
clearDenied(adminName) ==
    adminName = <<>> \/ toLowerCase(adminName) # <<"e", "s", "t", "h", "e", "r">>

LogsDelete(adminName) ==
    /\ running
    /\ IF clearDenied(adminName)
       THEN /\ res' = Response(403, "Permissao negada")
            /\ UNCHANGED logs
       ELSE /\ logs' = addLog(<<>>, adminName, "clearLogs", <<>>)
            /\ res' = Response(200, "Logs apagados")
    /\ writes' = <<>>
    /\ UNCHANGED <<chartData, userData, monthlyHistory, currentMonth,
                   credentials, teamData, clients, sockets, running>>

----------------------------------------------------------------------------
(* Credentials (lines 42-70, 89-146, 590-666). saveCredentials writes the  *)
(* list to a file that is read only at start-up, and ignores a failed      *)
(* write; the list in memory is the state.                                 *)

\* name.normalize('NFD').replace(/\s+/g, '').toLowerCase()  (lines 94, 125)
credNorm(name) == toLowerCase(ReplaceSpaceRuns(normalizeNFD(name), <<>>))

\* .replace(/h/g, '')  (lines 126, 131)
removeH(s) == SelectSeq(s, LAMBDA c : c # "h")

newCredentialMaster(name, password) ==
    [name |-> name, password |-> password, isMaster |-> TRUE]

\* the credential of a registration (line 105)
newCredential(name, password) ==
    [name |-> name, password |-> password, isMaster |-> FALSE]

\* credentials.some(...) of handleRegister (lines 95-97)
credExists(creds, name) ==
    \E i \in 1..Len(creds) : credNorm(creds[i].name) = credNorm(name)

\* the answer that carries a user (lines 108-109, 144-145)
UserResponse(code, body, name, isMaster) ==
    [code |-> code, body |-> body,
     user |-> [name |-> name, isMaster |-> isMaster]]

\* POST /register -> handleRegister (lines 89-110, 590-612)
Register(name, password) ==
    /\ running
    /\ Len(logs) < MaxLogs
    /\ IF name = <<>> \/ password = ""
       THEN /\ res' = Response(400, "Nome e senha sao obrigatorios")
            /\ UNCHANGED <<credentials, logs>>
       ELSE IF credExists(credentials, name)
       THEN /\ res' = Response(409, "Usuario ja existe")
            /\ UNCHANGED <<credentials, logs>>
       ELSE /\ credentials' = Append(credentials, newCredential(name, password))
            /\ logs' = addLog(logs, name, "register", <<>>)
            /\ res' = UserResponse(201, "Usuario registrado", name, FALSE)
    /\ writes' = <<>>
    /\ UNCHANGED <<chartData, userData, monthlyHistory, currentMonth,
                   teamData, clients, sockets, running>>

\* the test of the loop of handleLogin (lines 129-135)
matchesCredential(c, name) ==
    \/ credNorm(name) = credNorm(c.name)
    \/ removeH(credNorm(name)) = removeH(credNorm(c.name))

\* the loop of handleLogin: the index of the first credential that matches,
\* 0 when none does (lines 128-136)
findCredential(creds, name) ==
    IF \E i \in 1..Len(creds) : matchesCredential(creds[i], name)
    THEN CHOOSE i \in 1..Len(creds) :
             /\ matchesCredential(creds[i], name)
             /\ \A j \in 1..(i - 1) : ~matchesCredential(creds[j], name)
    ELSE 0

\* POST /login -> handleLogin (lines 118-146, 615-636)
Login(name, password) ==
    LET k == findCredential(credentials, name)
    IN  /\ running
        /\ Len(logs) < MaxLogs
        /\ IF name = <<>> \/ password = ""
           THEN /\ res' = Response(400, "Nome e senha sao obrigatorios")
                /\ UNCHANGED logs
           ELSE IF k = 0 \/ credentials[k].password # password
           THEN /\ res' = Response(401, "Nome ou senha invalidos")
                /\ UNCHANGED logs
           ELSE /\ logs' = addLog(logs, name, "login", <<>>)
                /\ res' = UserResponse(200, "Login bem-sucedido",
                                       credentials[k].name,
                                       credentials[k].isMaster)
        /\ writes' = <<>>
        /\ UNCHANGED <<chartData, userData, monthlyHistory, currentMonth,
                       credentials, teamData, clients, sockets, running>>

\* credentials.findIndex(c => c.name.toLowerCase() === 'esther'), 0 for -1
\* (line 654)
findMaster(creds) ==
    IF \E i \in 1..Len(creds) :
           toLowerCase(creds[i].name) = <<"e", "s", "t", "h", "e", "r">>
    THEN CHOOSE i \in 1..Len(creds) :
             /\ toLowerCase(creds[i].name) = <<"e", "s", "t", "h", "e", "r">>
             /\ \A j \in 1..(i - 1) :
                    toLowerCase(creds[j].name) # <<"e", "s", "t", "h", "e", "r">>
    ELSE 0

\* PUT /change-password (lines 639-666)
ChangePassword(adminName, newPassword) ==
    LET credIndex == findMaster(credentials)
    IN  /\ running
        /\ Len(logs) < MaxLogs
        /\ IF adminName = <<>> \/ newPassword = ""
           THEN /\ res' = Response(400, "Parametros ausentes")
                /\ UNCHANGED <<credentials, logs>>
           ELSE IF credNorm(adminName) # <<"e", "s", "t", "h", "e", "r">>
           THEN /\ res' = Response(403, "Apenas a administradora mestre pode alterar a propria senha")
                /\ UNCHANGED <<credentials, logs>>
           ELSE IF credIndex = 0
           THEN /\ res' = Response(500, "Conta da administradora mestre nao encontrada")
                /\ UNCHANGED <<credentials, logs>>
           ELSE /\ credentials' =
                       [credentials EXCEPT ![credIndex].password = newPassword]
                /\ logs' = addLog(logs, adminName, "changePassword",
                                  [admin |-> adminName])
                /\ res' = Response(200, "Senha atualizada")
        /\ writes' = <<>>
        /\ UNCHANGED <<chartData, userData, monthlyHistory, currentMonth,
                       teamData, clients, sockets, running>>

----------------------------------------------------------------------------
(* The state after the module is loaded (lines 8-34, 149-171).             *)

Init ==
    /\ chartData = [labels |-> <<>>, values |-> <<>>]
    /\ userData = <<>>
    /\ logs = <<>>
    /\ monthlyHistory = <<>>
    /\ currentMonth = StartMonth
    /\ credentials = <<[name |-> Esther, password |-> "1705", isMaster |-> TRUE]>>
    /\ teamData = <<
         [id |-> <<"e", "s", "t", "h", "e", "r">>, name |-> Esther,
          description |-> "Lider principal"],
         [id |-> <<"e", "v", "e", "l", "y", "n">>,
          name |-> <<"E", "v", "e", "l", "y", "n">>,
          description |-> "Gestora financeira"],
         [id |-> <<"l", "i", "a">>, name |-> <<"L", "i", "a">>,
          description |-> "Assistente analitica"]>>
    /\ clients = <<>>
    /\ sockets = <<>>
    /\ running = TRUE
    /\ res = NoResponse
    /\ writes = <<>>

Next ==
    \/ \E v \in ValueStrings, u \in UserNames \cup {<<>>}, l \in ClockLabels :
         Add(v, u, Esther, l)
    \/ \E u \in UserNames \cup {<<>>}, i \in IndexStrings, t \in NewTimes :
         Entry(u, i, t, Esther)
    \/ \E id \in UserIds : UserDelete(id, Esther)
    \/ \E id \in UserIds, n \in UserNames \cup {<<>>} : UserRename(id, n, Esther)
    \/ \E m \in Months : ResetMonth(Esther, m)
    \/ \E m \in Months \cup {""} : RestoreMonth(Esther, m)

\* Every ledger and period request, in any order, with no SSE client connected.
Spec == Init /\ [][Next]_vars

\* The edit requests with more index parameters, among deposits of one
\* amount and renames, with SSE clients connecting.
EntryTimes == {"t3"}

NextEntry ==
    \/ \E u \in UserNames \cup {<<>>}, l \in ClockLabels :
         Add(<<"5">>, u, Esther, l)
    \/ \E u \in UserNames \cup {<<>>}, i \in IndexStrings \cup MoreIndexStrings,
          t \in EntryTimes :
         Entry(u, i, t, Esther)
    \/ \E id \in UserIds, n \in UserNames : UserRename(id, n, Esther)
    \/ Events

SpecEntry == Init /\ [][NextEntry]_vars

\* The period requests (close, restore, list) among roster requests, one
\* kind of deposit, one edit, one rename and one delete, with SSE clients
\* connecting.
Zoe == <<"Z", "o", "e">>

TeamNames == {Zoe, <<>>}

TeamIds == {memberId(Esther), <<"x">>}

Descriptions == {Absent, Given("d1")}

UnknownMonth == "2025-12"

NextPeriod ==
    \/ Add(<<"5">>, Ana, Esther, "t1")
    \/ Entry(Ana, <<"0">>, "t3", Esther)
    \/ UserRename(sanitizeName(Ana), Bo, Esther)
    \/ UserDelete(sanitizeName(Bo), Esther)
    \/ \E n \in TeamNames : TeamCreate(n, Absent, Esther)
    \/ \E id \in TeamIds, d \in Descriptions : TeamUpdate(id, <<>>, d, Esther)
    \/ TeamDelete(memberId(Zoe), Esther)
    \/ \E m \in Months : ResetMonth(Esther, m)
    \/ \E m \in Months \cup {UnknownMonth} : RestoreMonth(Esther, m)
    \/ History
    \/ Events

SpecPeriod == Init /\ [][NextPeriod]_vars

\* The contributor requests (delete, rename, list) among deposits under two
\* names with one id, a third name and no name, and closes.
SameIdNames == {Ana, ana}

Amounts == {<<"5">>, <<"3">>, InfinityChars}

NextUsers ==
    \/ \E v \in Amounts, u \in SameIdNames \cup {<<>>} : Add(v, u, Esther, "t1")
    \/ \E id \in UserIds : UserDelete(id, Esther)
    \/ \E id \in UserIds, n \in {ana, Bo} : UserRename(id, n, Esther)
    \/ Participants
    \/ ResetMonth(Esther, StartMonth)

SpecUsers == Init /\ [][NextUsers]_vars

\* The requests to clear the audit log, by several actors, and to read it,
\* among deposits, roster creations and contributor deletions that fill it.
ESTHER == <<"E", "S", "T", "H", "E", "R">>

AuditActors == {<<>>, Esther, ESTHER, Ana, <<"E", "s", "t", "h", "e">>}

NextAudit ==
    \/ \E u \in {Ana, <<>>}, a \in AdminNames : Add(<<"5">>, u, a, "t1")
    \/ \E a \in AdminNames : TeamCreate(Zoe, Absent, a)
    \/ UserDelete(sanitizeName(Ana), Esther)
    \/ \E a \in AuditActors : LogsDelete(a)
    \/ LogsGet

SpecAudit == Init /\ [][NextAudit]_vars

\* Every request that writes the audit log, accepted and rejected, some with
\* and some without an admin name, with SSE clients connecting.
NextLog ==
    \/ \E v \in {<<"5">>, <<"a", "b", "c">>}, a \in AdminNames :
         Add(v, Ana, a, "t1")
    \/ \E i \in {<<"0">>, <<"1">>} : Entry(Ana, i, "t3", <<>>)
    \/ UserRename(sanitizeName(Ana), Bo, Esther)
    \/ UserDelete(sanitizeName(Bo), <<>>)
    \/ TeamCreate(Zoe, Absent, Esther)
    \/ TeamUpdate(memberId(Esther), <<>>, Given("d1"), <<>>)
    \/ TeamDelete(memberId(Zoe), <<>>)
    \/ ResetMonth(Esther, StartMonth)
    \/ \E m \in {StartMonth, UnknownMonth} : RestoreMonth(<<>>, m)
    \/ Events

SpecLog == Init /\ [][NextLog]_vars

\* The SSE connections: clients connect, are lost and close among deposits
\* of a finite and of an infinite amount, accepted and rejected, and roster
\* creations.
NextSse ==
    \/ Events
    \/ \E c \in 1..MaxClients : SocketBreak(c)
    \/ \E c \in 1..MaxClients : SocketClose(c)
    \/ \E v \in ValueStrings, u \in {Ana, <<>>} : Add(v, u, Esther, "t1")
    \/ TeamCreate(Zoe, Absent, Esther)

SpecSse == Init /\ [][NextSse]_vars

\* The roster requests, with names that differ in case and spacing only,
\* among closes and restores.
ZOE == <<"Z", "O", " ", "E">>

RosterNames == {Zoe, ZOE, <<>>}

RosterIds == {memberId(Esther), <<"x">>}

NextTeam ==
    \/ \E n \in RosterNames : TeamCreate(n, Absent, Esther)
    \/ \E id \in RosterIds, n \in {Zoe, <<>>}, d \in Descriptions :
         TeamUpdate(id, n, d, Esther)
    \/ \E id \in {memberId(Zoe), <<"x">>} : TeamDelete(id, Esther)
    \/ ResetMonth(Esther, StartMonth)
    \/ \E m \in {StartMonth, UnknownMonth} : RestoreMonth(Esther, m)

SpecTeam == Init /\ [][NextTeam]_vars

----------------------------------------------------------------------------
(* The credential endpoints, with names that differ by the letter h.       *)

Ester == <<"E", "s", "t", "e", "r">>
CredNames == {Esther, Ester, Ana}
Passwords == {"1705", "pw"}

NextCred ==
    \/ \E n \in CredNames \cup {<<>>}, p \in Passwords : Register(n, p)
    \/ \E n \in CredNames, p \in Passwords \cup {""} : Login(n, p)
    \/ \E a \in {Esther, Ana, <<>>} : ChangePassword(a, "pw")

SpecCred == Init /\ [][NextCred]_vars

----------------------------------------------------------------------------
(* Properties.                                                             *)

Last(s) == s[Len(s)]

\* C1: in every reachable state the aggregate series and every contributor
\* series have as many labels as values.
LengthsAgree ==
    /\ Len(chartData.labels) = Len(chartData.values)
    /\ \A i \in 1..Len(userData) :
         Len(userData[i].data.labels) = Len(userData[i].data.values)

\* C1 witness: a restore has brought back a contributor with deposits, and a
\* deposit was then added to the aggregate series.
LengthsAgreeWitness ==
    /\ res = Response(200, "Valor adicionado")
    /\ monthlyHistory # <<>>
    /\ \E i \in 1..Len(userData) :
         /\ ~HasEntries(userData[i].data)
         /\ Len(userData[i].data.values) > 0
    /\ Len(chartData.values) = 2

\* the labels and values of every contributor, without the entries
SeriesOnly(ud) ==
    [i \in 1..Len(ud) |->
        [key |-> ud[i].key,
         data |-> [labels |-> ud[i].data.labels, values |-> ud[i].data.values]]]

\* C2 (as claimed): right after a restore of month m, the live aggregate
\* series and every contributor's labels and values are those of every
\* snapshot that was closed under the id m.
RestoreReproducesClose ==
    res = Response(200, "Mes restaurado") =>
        \A i \in 1..Len(monthlyHistory) :
            monthlyHistory[i].month = currentMonth =>
                /\ chartData = monthlyHistory[i].chart
                /\ SeriesOnly(userData) = SeriesOnly(monthlyHistory[i].users)

\* C3 (as claimed): a deposit with a finite amount and a contributor name
\* is answered 200, the contributor exists afterwards, its series ends with
\* the deposit, and its last entries item points at the last aggregate index.
DepositWithContributorSucceeds ==
    [][\A v \in ValueStrings, u \in UserNames, l \in ClockLabels :
          (Add(v, u, Esther, l) /\ isFinite(parseFloat(v))) =>
              /\ res' = Response(200, "Valor adicionado")
              /\ Has(userData', u)
              /\ LET d == Get(userData', u)
                 IN  /\ HasEntries(d)
                     /\ Last(d.labels) = l
                     /\ Last(d.values) = parseFloat(v)
                     /\ Last(d.entries).totalIndex = Len(chartData'.values) - 1
                     /\ Last(chartData'.values) = parseFloat(v)]_vars

\* C4 (as claimed): every contributor series has entries, as many as labels,
\* and entries[i] carries labels[i] and values[i].
EntriesAligned ==
    \A i \in 1..Len(userData) :
        LET d == userData[i].data
        IN  /\ HasEntries(d)
            /\ Len(d.entries) = Len(d.labels)
            /\ \A j \in 1..Len(d.entries) :
                 /\ d.entries[j].time = d.labels[j]
                 /\ d.entries[j].value = d.values[j]

\* C5: a deposit answered 200, with or without a contributor, makes the
\* aggregate labels and the aggregate values one longer each, and leaves them
\* equally long.
DepositGrowsByOne ==
    [][\A v \in ValueStrings, u \in UserNames \cup {<<>>}, l \in ClockLabels :
          (res'.code = 200 /\ Add(v, u, Esther, l)) =>
              /\ Len(chartData'.labels) = Len(chartData.labels) + 1
              /\ Len(chartData'.values) = Len(chartData.values) + 1
              /\ Len(chartData'.labels) = Len(chartData'.values)]_vars

\* C5 witness: two deposits have been answered 200, the last without a
\* contributor.
DepositGrowsByOneWitness ==
    /\ res = Response(200, "Valor adicionado")
    /\ Len(chartData.values) = 2
    /\ Last(logs).details.user = <<"t", "o", "t", "a", "l">>

\* C6 (as claimed): a deposit whose amount is not a finite number is answered
\* 400 and changes neither the series nor the log, and writes to no client.
NonFiniteAmountRejected ==
    [][\A v \in ValueStrings, u \in UserNames \cup {<<>>}, l \in ClockLabels :
          (Add(v, u, Esther, l) /\ ~isFinite(parseFloat(v))) =>
              /\ res'.code = 400
              /\ UNCHANGED <<chartData, userData, logs>>
              /\ writes' = <<>>]_vars

\* C7: an edit answered 200 for contributor u, index i and time t leaves
\* labels[i] = t and entries[i].time = t in u's series and t at the aggregate
\* label entries[i].totalIndex points at; no other label of u or of the
\* aggregate series changes.
EditSetsBothLabels ==
    [][\A u \in UserNames, i \in IndexStrings, t \in NewTimes :
          (res'.code = 200 /\ Entry(u, i, t, Esther)) =>
              LET idx == parseInt(i).n
                  d == Get(userData, u)
                  d2 == Get(userData', u)
                  totalIndex == d.entries[idx + 1].totalIndex
              IN  /\ idx + 1 \in 1..Len(d.labels)
                  /\ totalIndex + 1 \in 1..Len(chartData.labels)
                  /\ d2.labels[idx + 1] = t
                  /\ d2.entries[idx + 1].time = t
                  /\ chartData'.labels[totalIndex + 1] = t
                  /\ \A j \in 1..Len(d.labels) :
                       j # idx + 1 => d2.labels[j] = d.labels[j]
                  /\ \A j \in 1..Len(chartData.labels) :
                       j # totalIndex + 1 =>
                           chartData'.labels[j] = chartData.labels[j]]_vars

\* C7 witness: an edit succeeded on the second aggregate deposit, so that
\* the contributor's index (0) and the aggregate index (1) differ.
EditSetsBothLabelsWitness ==
    /\ res = Response(200, "Horario da entrada atualizado")
    /\ chartData.labels = <<"t1", "t3">>
    /\ \E i \in 1..Len(userData) :
         /\ HasEntries(userData[i].data)
         /\ userData[i].data.labels = <<"t3">>
         /\ userData[i].data.entries[1].totalIndex = 1

\* C8: an edit answered 200 changes no value, no length and no order: the
\* aggregate values, every contributor's values, the length of every series,
\* the order of the contributors, the labels of every other contributor, the
\* roster and the history stay as they were.
EditChangesLabelsOnly ==
    [][\A u \in UserNames, i \in IndexStrings, t \in NewTimes :
          (res'.code = 200 /\ Entry(u, i, t, Esther)) =>
              /\ chartData'.values = chartData.values
              /\ Len(chartData'.labels) = Len(chartData.labels)
              /\ Keys(userData') = Keys(userData)
              /\ \A k \in 1..Len(userData) :
                   /\ userData'[k].data.values = userData[k].data.values
                   /\ Len(userData'[k].data.labels) = Len(userData[k].data.labels)
                   /\ userData[k].key # u =>
                          userData'[k].data = userData[k].data
              /\ teamData' = teamData
              /\ monthlyHistory' = monthlyHistory]_vars

\* C8 witness: an edit succeeded while two contributors had deposits and a
\* snapshot was in the history.
EditChangesLabelsOnlyWitness ==
    /\ res = Response(200, "Horario da entrada atualizado")
    /\ Len(userData) = 2
    /\ \A k \in 1..2 : Len(userData[k].data.values) = 1
    /\ monthlyHistory # <<>>

\* C9: an edit for a contributor that is no key of userData, or with an
\* index below 0 or not below the number of that contributor's entries, is
\* answered 404; it changes neither the series nor the log and writes to no
\* client.
EditNotFound ==
    [][\A i \in IndexStrings \cup MoreIndexStrings :
          LET idx == parseInt(i)
          IN  ~isNaN(idx) =>
              \A u \in UserNames :
                  (\/ ~Has(userData, u)
                   \/ idx.n < 0
                   \/ /\ HasEntries(Get(userData, u))
                      /\ idx.n >= Len(Get(userData, u).entries)) =>
                  \A t \in EntryTimes :
                      Entry(u, i, t, Esther) =>
                          /\ res' = Response(404, "Entrada nao encontrada")
                          /\ UNCHANGED <<chartData, userData, logs, running>>
                          /\ writes' = <<>>]_vars

\* C9 witness: a client is connected and has been written to by a deposit
\* of a contributor, and an edit was then answered 404.
EditNotFoundWitness ==
    /\ res = Response(404, "Entrada nao encontrada")
    /\ clients # <<>>
    /\ userData # <<>>
    /\ logs # <<>>
    /\ writes = <<>>

\* C10 (as claimed): a close appends one snapshot that holds the aggregate
\* series, every contributor's labels and values and the roster as they were
\* before the close, empties the aggregate series and userData, and leaves
\* the roster as it was.
CloseSnapshotsThenClears ==
    [][\A m \in Months :
          ResetMonth(Esther, m) =>
              /\ Len(monthlyHistory') = Len(monthlyHistory) + 1
              /\ SubSeq(monthlyHistory', 1, Len(monthlyHistory)) = monthlyHistory
              /\ Last(monthlyHistory').chart = chartData
              /\ SeriesOnly(Last(monthlyHistory').users) = SeriesOnly(userData)
              /\ Last(monthlyHistory').team = teamData
              /\ chartData' = [labels |-> <<>>, values |-> <<>>]
              /\ userData' = <<>>
              /\ teamData' = teamData]_vars

\* C11: a stored snapshot is never changed after it is created.  Every step
\* that is not a close leaves the history list, and so every snapshot in it,
\* as it was; a close keeps every stored snapshot in its place, unchanged, and
\* adds one snapshot after them.
SnapshotsNeverMutated ==
    [][/\ Len(monthlyHistory') >= Len(monthlyHistory)
       /\ SubSeq(monthlyHistory', 1, Len(monthlyHistory)) = monthlyHistory
       /\ IF \E m \in Months : ResetMonth(Esther, m)
          THEN Len(monthlyHistory') = Len(monthlyHistory) + 1
          ELSE monthlyHistory' = monthlyHistory]_vars

\* A roster update has acted on the roster a restore brought back, a second
\* close has followed, and the first snapshot is still stored.
SnapshotsNeverMutatedWitness ==
    /\ Len(monthlyHistory) = 2
    /\ monthlyHistory[1] # monthlyHistory[2]
    /\ \E i \in 1..Len(logs), j \in 1..Len(logs) :
         /\ i < j
         /\ logs[i].action = "restoreMonth"
         /\ logs[j].action = "teamUpdate"
    /\ Last(logs).action = "resetMonth"

\* C12: a restore replaces the live roster with the roster of the snapshot it
\* matched (the first one stored under the requested period), and a step that
\* changes the live roster changes the roster of no stored snapshot.
RestoreReplacesRoster ==
    [][/\ \A m \in Months :
            (res'.code = 200 /\ RestoreMonth(Esther, m)) =>
               \E k \in 1..Len(monthlyHistory) :
                  /\ monthlyHistory[k].month = m
                  /\ \A j \in 1..(k - 1) : monthlyHistory[j].month # m
                  /\ teamData' = monthlyHistory[k].team
       /\ teamData' # teamData =>
            \A k \in 1..Len(monthlyHistory) :
               monthlyHistory'[k].team = monthlyHistory[k].team]_vars

\* A restore has just reverted a roster request made after the close.
RestoreReplacesRosterWitness ==
    /\ Len(logs) >= 3
    /\ logs[Len(logs) - 2].action = "resetMonth"
    /\ logs[Len(logs) - 1].action \in {"teamCreate", "teamUpdate", "teamDelete"}
    /\ Last(logs).action = "restoreMonth"
    /\ Len(monthlyHistory) = 1
    /\ teamData = monthlyHistory[1].team
    /\ res.code = 200

\* C13: a restore whose period id is the id of no stored snapshot is answered
\* 404 (not found); the aggregate series, the ledger, the roster, the current
\* period, the history and the audit log stay as they were and nothing is
\* written to any SSE client.
RestoreNotFound ==
    [][\A m \in Months \cup {UnknownMonth} :
          ((\A k \in 1..Len(monthlyHistory) : monthlyHistory[k].month # m)
             /\ RestoreMonth(Esther, m)) =>
                /\ res' = Response(404, "Mes nao encontrado")
                /\ writes' = <<>>
                /\ UNCHANGED <<chartData, userData, teamData, currentMonth,
                               monthlyHistory, logs>>]_vars

\* An unmatched restore has been refused while a snapshot of another period
\* was stored, the ledger held a deposit and an SSE client was connected.
RestoreNotFoundWitness ==
    /\ res = Response(404, "Mes nao encontrado")
    /\ Len(monthlyHistory) > 0
    /\ chartData.values # <<>>
    /\ userData # <<>>
    /\ clients # <<>>

\* The periods closed so far, in the order of the closes, as the audit log
\* recorded them.
ClosedPeriods(lg) ==
    LET IsClose(e) == e.action = "resetMonth"
        closes == SelectSeq(lg, IsClose)
    IN  [i \in 1..Len(closes) |-> closes[i].details.previousMonth]

\* C14: the period listing answers the period ids of the stored snapshots in
\* the order the closes created them, and every close adds exactly one id,
\* the id of the period it closed, after the ids already listed.
ListPeriodsInCreationOrder ==
    [][/\ History => res'.months = ClosedPeriods(logs)
       /\ \A m \in Months :
            ResetMonth(Esther, m) =>
               /\ Len(monthlyHistory') = Len(monthlyHistory) + 1
               /\ Last(monthlyHistory').month = currentMonth
               /\ \A i \in 1..Len(monthlyHistory) :
                     monthlyHistory'[i].month = monthlyHistory[i].month]_vars

\* The listing has answered two entries for two closes of the same period.
ListPeriodsInCreationOrderWitness ==
    /\ "months" \in DOMAIN res
    /\ res.months = <<StartMonth, StartMonth>>
    /\ Len(monthlyHistory) = 2

\* The labels and values of a contributor's series.
Series(ud, key) ==
    [labels |-> Get(ud, key).labels, values |-> Get(ud, key).values]

\* C15: a delete request with the listed id of a contributor x removes x and
\* only x: x is no longer a key, every other contributor keeps its series
\* and the aggregate series is unchanged; with an id no contributor has, the
\* answer is 404 and nothing changes.
DeleteRemovesListed ==
    [][/\ \A x \in 1..Len(userData) :
            UserDelete(sanitizeName(userData[x].key), Esther) =>
               /\ res'.code = 200
               /\ ~Has(userData', userData[x].key)
               /\ \A y \in 1..Len(userData) :
                     y # x =>
                        /\ Has(userData', userData[y].key)
                        /\ Get(userData', userData[y].key) = userData[y].data
               /\ chartData' = chartData
       /\ \A id \in UserIds :
            ((\A y \in 1..Len(userData) : sanitizeName(userData[y].key) # id)
               /\ UserDelete(id, Esther)) =>
                  /\ res'.code = 404
                  /\ UNCHANGED <<userData, chartData>>]_vars

\* C16: a rename of oldName is answered 404 when oldName is no key; when it
\* succeeds, newName holds the labels and values oldName held, in the same
\* order, oldName is no key any more unless it equals newName, and every
\* other contributor's series and the aggregate series are unchanged.
RenameMovesSeries ==
    [][\A newName \in {ana, Bo} :
          /\ \A id \in UserIds :
                ((\A y \in 1..Len(userData) : sanitizeName(userData[y].key) # id)
                   /\ UserRename(id, newName, Esther)) =>
                      /\ res'.code = 404
                      /\ UNCHANGED <<userData, chartData>>
          /\ \A x \in 1..Len(userData) :
                LET oldName == userData[x].key
                IN  (/\ findKey(userData, sanitizeName(oldName)) = x
                     /\ UserRename(sanitizeName(oldName), newName, Esther)) =>
                        /\ res'.code = 200
                        /\ Has(userData', newName)
                        /\ Series(userData', newName) = Series(userData, oldName)
                        /\ oldName # newName => ~Has(userData', oldName)
                        /\ \A y \in 1..Len(userData) :
                              y # x =>
                                 /\ Has(userData', userData[y].key)
                                 /\ Series(userData', userData[y].key)
                                       = Series(userData, userData[y].key)
                        /\ chartData' = chartData]_vars

\* C17: a rename to a name that is already the key of another contributor is
\* refused and leaves the ledger, both contributors' series included, as it
\* was.
RenameOntoExistingRefused ==
    [][\A id \in UserIds, newName \in {ana, Bo} :
          LET k == findKey(userData, id)
          IN  (/\ k # 0
               /\ Has(userData, newName)
               /\ userData[k].key # newName
               /\ UserRename(id, newName, Esther)) =>
                  /\ res'.code >= 400
                  /\ userData' = userData]_vars

\* C18: the contributor listing answers one item per key of the ledger, in
\* which the count is the number of the contributor's values and the total
\* is their sum.
ListContributorsTotals ==
    [][Participants =>
          /\ Len(res'.list) = Len(userData)
          /\ \A i \in 1..Len(userData) :
                /\ res'.list[i].name = userData[i].key
                /\ res'.list[i].count = Len(userData[i].data.values)
                /\ res'.list[i].total = reduceSum(userData[i].data.values)]_vars

\* The deposits without a contributor name that the audit log records after
\* its entry number start.
AnonymousSince(lg, start) ==
    LET IsAnonymous(e) ==
            e.action = "deposit" /\ e.details.user = <<"t", "o", "t", "a", "l">>
        deposits == SelectSeq(SubSeq(lg, start + 1, Len(lg)), IsAnonymous)
    IN  [i \in 1..Len(deposits) |-> deposits[i].details.value]

\* The number of the last close or restore in the audit log, 0 without one.
LastPeriodChange(lg) ==
    LET changes == {i \in 1..Len(lg) :
                       lg[i].action \in {"resetMonth", "restoreMonth"}}
    IN  IF changes = {} THEN 0
        ELSE CHOOSE i \in changes : \A j \in changes : j <= i

\* C19: while no contributor has been deleted since the last close (or since
\* the start), the sum of the aggregate values is the sum of the contributors'
\* totals plus the sum of the deposits made without a contributor name.
AggregateIsSumOfParts ==
    LET start == LastPeriodChange(logs)
        totals == [i \in 1..Len(userData) |-> reduceSum(userData[i].data.values)]
    IN  (\A i \in (start + 1)..Len(logs) : logs[i].action # "userDelete") =>
           reduceSum(chartData.values)
              = jsAdd(reduceSum(totals), reduceSum(AnonymousSince(logs, start)))

\* The actor's name equals the name of a master account up to letter case.
IsMasterName(actor) ==
    \E i \in 1..Len(credentials) :
       /\ credentials[i].isMaster
       /\ toLowerCase(actor) = toLowerCase(credentials[i].name)

\* C20: a request to clear the audit log whose actor is missing, or is not
\* the master account's name up to letter case, is answered 403 (permission
\* denied) and leaves the audit log as it was.
ClearDeniedKeepsLog ==
    [][\A a \in AuditActors :
          ((a = <<>> \/ ~IsMasterName(a)) /\ LogsDelete(a)) =>
             /\ res' = Response(403, "Permissao negada")
             /\ logs' = logs]_vars

\* A clear request has been refused while the audit log held entries.
ClearDeniedKeepsLogWitness ==
    /\ res = Response(403, "Permissao negada")
    /\ Len(logs) >= 2

\* C21: after a clear request of the master account has succeeded, the audit
\* log holds exactly one entry, which records the clear action under the
\* name the request gave as its actor.
ClearLeavesOneEntry ==
    [][\A a \in AuditActors :
          (res'.code = 200 /\ LogsDelete(a)) =>
             /\ Len(logs') = 1
             /\ logs'[1].action = "clearLogs"
             /\ logs'[1].admin = a]_vars

\* The master account, named in capitals, has cleared a log that held the
\* entries of two deposits.
ClearLeavesOneEntryWitness ==
    /\ res = Response(200, "Logs apagados")
    /\ Len(chartData.values) = 2
    /\ Len(logs) = 1
    /\ logs[1].action = "clearLogs"
    /\ logs[1].admin = ESTHER

\* C22: the audit log is append-only.  Unless the step is a clear request
\* that succeeds, the log before the step is a prefix of the log after it;
\* and the log listing answers the entries in the order they were appended,
\* oldest first.
LogAppendOnly ==
    [][/\ (~ \E a \in AuditActors : (res'.code = 200 /\ LogsDelete(a))) =>
            /\ Len(logs') >= Len(logs)
            /\ SubSeq(logs', 1, Len(logs)) = logs
       /\ LogsGet => res'.logs = logs]_vars

\* The listing has answered a deposit entry before the entry of the delete
\* that followed it.
LogAppendOnlyWitness ==
    /\ "logs" \in DOMAIN res
    /\ Len(res.logs) >= 2
    /\ res.logs[1].action = "deposit"
    /\ res.logs[2].action = "userDelete"

\* The name an audit entry records for the admin parameter of a request.
Actor(adminName) == IF adminName = <<>> THEN Unknown ELSE adminName

\* What a mutation request that succeeded has done: it has added one audit
\* entry, under the actor of the request, and written one message to every
\* registered client, in which the state is the state after the change.
Accepted(adminName) ==
    /\ Len(logs') = Len(logs) + 1
    /\ SubSeq(logs', 1, Len(logs)) = logs
    /\ Last(logs').admin = Actor(adminName)
    /\ Len(writes') = Len(clients)
    /\ \A i \in 1..Len(clients) :
          /\ writes'[i].client = clients[i]
          /\ writes'[i].data = Payload(chartData', userData', teamData')

\* What a mutation request that was rejected has done: nothing but answer.
Rejected ==
    /\ writes' = <<>>
    /\ UNCHANGED <<chartData, userData, teamData, monthlyHistory,
                   currentMonth, logs>>

Handled(request, adminName) ==
    request => /\ res'.code = 200 => Accepted(adminName)
               /\ res'.code >= 400 => Rejected
               /\ res'.code = 200 \/ res'.code >= 400 \/ ~running'

Registered(cl) == {cl[i] : i \in 1..Len(cl)}

\* The message carries this aggregate series, these contributor series and
\* this roster.
Describes(data, chart, ud, team) ==
    /\ data.totalLabels = chart.labels
    /\ data.totalValues = chart.values
    /\ data.users = ud
    /\ data.team = team

\* C24: a subscription writes to the new client, at once, exactly one message
\* that carries the current aggregate series, contributor series and roster,
\* whatever was published before, and registers the client after the clients
\* already registered.
SubscribeWritesCurrentState ==
    [][Events =>
          /\ Len(writes') = 1
          /\ writes'[1].client \notin Registered(clients)
          /\ clients' = Append(clients, writes'[1].client)
          /\ Describes(writes'[1].data, chartData, userData, teamData)]_vars

\* C25: a publish writes one and the same payload to every client registered
\* at that moment, once each, in the order the clients subscribed.
PublishInOrder ==
    [][/\ \A i \in 1..Len(clients'), j \in 1..Len(clients') :
             i < j => clients'[i] < clients'[j]
       /\ logs' # logs =>
             /\ Len(writes') = Len(clients)
             /\ \A i \in 1..Len(clients) :
                   /\ writes'[i].client = clients[i]
                   /\ writes'[i].data = writes'[1].data]_vars

\* A publish has written to two registered clients, the older one first.
PublishInOrderWitness ==
    /\ clients = <<1, 2>>
    /\ Len(writes) = 2
    /\ writes[1].client = 1
    /\ writes[2].client = 2
    /\ res.code = 200

\* C26: when a publish meets a registered client whose connection is lost,
\* so that the write to it fails, every other registered client is still
\* written the payload, and the request that caused the publish is answered.
FailedWriteDoesNotBlock ==
    [][(/\ logs' # logs
        /\ \E c \in Registered(clients) : sockets[c] = "broken") =>
           /\ \A c \in Registered(clients) :
                 sockets[c] = "open" =>
                    \E i \in 1..Len(writes') :
                       /\ writes'[i].client = c
                       /\ writes'[i].data = Payload(chartData', userData', teamData')
           /\ res'.code = 200
           /\ running']_vars

\* A publish has written to the client registered after a client whose
\* connection was lost.
FailedWriteDoesNotBlockWitness ==
    /\ clients = <<1, 2>>
    /\ sockets = <<"broken", "open">>
    /\ \E i \in 1..Len(writes) : writes[i].client = 2
    /\ res.code = 200

\* C27: a client whose connection closes, or to which a write fails, is
\* removed from the registry, and no other client with it; once closed it is
\* written no message and is never registered again.
DisconnectedIsRemoved ==
    [][/\ \A c \in 1..Len(sockets) :
            SocketClose(c) =>
               /\ c \notin Registered(clients')
               /\ Registered(clients') = Registered(clients) \ {c}
       /\ \A i \in 1..Len(writes') :
            (/\ writes'[i].client \in 1..Len(sockets)
             /\ sockets[writes'[i].client] = "broken") =>
                writes'[i].client \notin Registered(clients')
       /\ \A c \in 1..Len(sockets) :
            sockets[c] = "closed" =>
               /\ c \notin Registered(clients')
               /\ \A i \in 1..Len(writes') : writes'[i].client # c]_vars

\* C28: a registered client misses no update.  After every step that leaves
\* the server running, the message written last to each registered client
\* describes exactly the aggregate series, contributor series and roster of
\* the server: the step either wrote the new state to the client or changed
\* none of the three.
SinksSeeCurrentState ==
    [][running' =>
          \A c \in Registered(clients') :
             LET ws == {i \in 1..Len(writes') : writes'[i].client = c}
                 last == CHOOSE i \in ws : \A j \in ws : j <= i
             IN  IF ws # {}
                 THEN Describes(writes'[last].data, chartData', userData', teamData')
                 ELSE /\ c \in Registered(clients)
                      /\ UNCHANGED <<chartData, userData, teamData>>]_vars

\* The ids of the members of a roster are pairwise distinct.
DistinctIds(team) ==
    \A i \in 1..Len(team), j \in 1..Len(team) : i # j => team[i].id # team[j].id

\* C29: the ids of the roster members are pairwise distinct in every state,
\* before and after every step, and a request to create a member whose
\* derived id is already in the roster is rejected and leaves the roster as
\* it was.
RosterIdsDistinct ==
    [][/\ DistinctIds(teamData)
       /\ DistinctIds(teamData')
       /\ \A n \in RosterNames \ {<<>>} :
             ((\E i \in 1..Len(teamData) : teamData[i].id = memberId(n))
                /\ TeamCreate(n, Absent, Esther)) =>
                   /\ res'.code >= 400
                   /\ teamData' = teamData]_vars

\* A creation has been rejected for a name that differs in case and spacing
\* from the name of a member created before.
RosterIdsDistinctWitness ==
    /\ res = Response(400, "Membro ja existe")
    /\ Len(teamData) = 4
    /\ teamData[4].id = memberId(Zoe)
    /\ Last(logs).action = "teamCreate"

\* C30: in every state the id of each roster member is the id derived from
\* the member's current name.
RosterIdFollowsName ==
    \A i \in 1..Len(teamData) : teamData[i].id = memberId(teamData[i].name)

\* C31: from the default credential store, after any sequence of register,
\* login and change-password requests exactly one credential has
\* isMaster = TRUE.
ExactlyOneMaster ==
    Cardinality({i \in 1..Len(credentials) : credentials[i].isMaster}) = 1

\* C31 witness: two users have registered beside the default credential,
\* the master password has been changed and a login has succeeded.
ExactlyOneMasterWitness ==
    /\ Len(credentials) = 3
    /\ credentials[1].password # "1705"
    /\ \E i \in 1..Len(logs) : logs[i].action = "changePassword"
    /\ res.code = 200
    /\ res.body = "Login bem-sucedido"

RestoreSetsPointer ==
    [][/\ \A m \in Months \cup {UnknownMonth} :
             (res'.code = 200 /\ RestoreMonth(Esther, m)) =>
                 currentMonth' = m
       /\ \A m \in Months :
             ResetMonth(Esther, m) =>
                 /\ Len(monthlyHistory') = Len(monthlyHistory) + 1
                 /\ Last(monthlyHistory').month = currentMonth
       /\ (\A m \in Months \cup {UnknownMonth} :
               /\ ~RestoreMonth(Esther, m)
               /\ ~ResetMonth(Esther, m)) =>
              currentMonth' = currentMonth]_vars

\* C33 witness: a period was closed, which moved the pointer on; the closed
\* period was restored, and the close that followed stored a second snapshot
\* under the restored period's id.
RestoreSetsPointerWitness ==
    /\ Len(monthlyHistory) = 2
    /\ monthlyHistory[2].month = monthlyHistory[1].month
    /\ \E i \in 2..(Len(logs) - 1) :
          /\ logs[i - 1].action = "resetMonth"
          /\ logs[i].action = "restoreMonth"
          /\ logs[i + 1].action = "resetMonth"
          /\ logs[i].details.month = monthlyHistory[2].month
          /\ logs[i - 1].details.newMonth # logs[i].details.month

\* the entries items of all contributors, each with its contributor's
\* position and its own position
EntryItems ==
    {<<i, j>> \in (1..Len(userData)) \X (1..MaxDeposits + 1) :
        /\ HasEntries(userData[i].data)
        /\ j <= Len(userData[i].data.entries)}
ItemAt(p) == userData[p[1]].data.entries[p[2]]

\* C34: every entries item of every contributor has a totalIndex that is an
\* index of the aggregate series, the aggregate label and value at that
\* index are the item's time and value, and no two entries items share a
\* totalIndex.
EntriesPointIntoAggregate ==
    /\ \A p \in EntryItems :
          /\ ItemAt(p).totalIndex \in 0..(Len(chartData.values) - 1)
          /\ ItemAt(p).totalIndex < Len(chartData.labels)
          /\ chartData.labels[ItemAt(p).totalIndex + 1] = ItemAt(p).time
          /\ chartData.values[ItemAt(p).totalIndex + 1] = ItemAt(p).value
    /\ \A p, q \in EntryItems :
          ItemAt(p).totalIndex = ItemAt(q).totalIndex => p = q

\* C34 witness: after a deposit without a contributor, a contributor's
\* deposit took index 1 of the aggregate series and its time was edited.
EntriesPointIntoAggregateWitness ==
    /\ running
    /\ Len(chartData.values) = 2
    /\ \E p \in EntryItems :
          /\ ItemAt(p).totalIndex = 1
          /\ ItemAt(p).time \in NewTimes
          /\ chartData.labels[2] = ItemAt(p).time

\* C35: every user whose registration succeeded (every credential that is
\* not the master's) can log in with exactly the name and password they
\* registered, and the login answers 200 with that user's own name and
\* isMaster flag, whatever other credentials exist.
RegisteredCanLogIn ==
    [][\A i \in 1..Len(credentials) :
          ~credentials[i].isMaster =>
              (Login(credentials[i].name, credentials[i].password) =>
                  /\ res'.code = 200
                  /\ res'.user.name = credentials[i].name
                  /\ res'.user.isMaster = credentials[i].isMaster)]_vars

=============================================================================
